---- MODULE Spec2Model ----
(***************************************************************************)
(* Model of the dirty-tracked scene graph of RMGE: the Tracked<T> wrapper  *)
(* (src/src/tracker.rs) and SceneNode / SceneTree (src/src/scene.rs).      *)
(*                                                                         *)
(* A Tracked<T> is a record [state, inner]; a SceneNode is a record with   *)
(* the fields of the Rust struct; children are sequences of Tracked nodes. *)
(* A node of a tree is addressed by a path: the sequence of (1-based)      *)
(* child positions from the root.                                          *)
(***************************************************************************)
EXTENDS Integers, Sequences, FiniteSets, TLC

VARIABLES pool, tree, lastOp, prevOp, tracker, writes, arg, returned, parentRef,
          snapshot, stack, visits, entry

vars == <<pool, tree, lastOp, prevOp, tracker, writes, arg, returned, parentRef,
         snapshot, stack, visits, entry>>

(***************************************************************************)
(* Bounds                                                                  *)
(***************************************************************************)
\* total number of SceneNode values alive (owned ones plus those of the tree)
MaxNodes == 3

\* the same where the two passes are followed call by call
MaxWalkNodes == 3

\* the same where subtrees are inserted next to subtrees
MaxBuildNodes == 4

\* the same where only the positional indices are followed
MaxIndexNodes == 5

\* write accesses to the single wrapper between two resets
MaxWrites == 3

\* the same as MaxNodes where compute_cache is called directly
MaxCacheNodes == 3

(***************************************************************************)
(* geometry.rs: Mat4 = Matrix4<f32>.  Matrices are Dim x Dim tuples of     *)
(* rows; the entries used are small integers, which f32 represents and     *)
(* multiplies exactly.                                                     *)
(***************************************************************************)
Dim == 4

Idx == 1..Dim

\* Mat4::identity()
Identity == [i \in Idx |-> [j \in Idx |-> IF i = j THEN 1 ELSE 0]]

\* k * Mat4::identity()
Scale(k) == [i \in Idx |-> [j \in Idx |-> IF i = j THEN k ELSE 0]]

RECURSIVE Dot(_, _, _, _, _)
Dot(a, b, i, j, k) ==
    IF k = 0 THEN 0 ELSE a[i][k] * b[k][j] + Dot(a, b, i, j, k - 1)

\* the matrix product a * b
MatMul(a, b) == [i \in Idx |-> [j \in Idx |-> Dot(a, b, i, j, Dim)]]

\* the matrix sum a + b
MatAdd(a, b) == [i \in Idx |-> [j \in Idx |-> a[i][j] + b[i][j]]]

\* a mul_to that adds the product to what out held instead of overwriting it
mul_to_accumulate(self, rhs, out) == MatAdd(out, MatMul(self, rhs))

\* a mul_to with the factors in the other order
mul_to_swapped(self, rhs, out) == MatMul(rhs, self)

\* nalgebra's self.mul_to(rhs, out): the value of out afterwards, self * rhs
mul_to(self, rhs, out) == MatMul(self, rhs)

\* the local transforms a caller may pass
Transforms == {Identity, Scale(2)}

\* a scaling by 2 along x only
Stretch == [i \in Idx |-> [j \in Idx |-> IF i = j THEN (IF i = 1 THEN 2 ELSE 1)
                                                  ELSE 0]]

\* a translation by 1 along x
Shift == [i \in Idx |-> [j \in Idx |-> IF i = j \/ (i = 1 /\ j = Dim) THEN 1
                                                                    ELSE 0]]

\* two transforms whose product depends on the order of the factors
Matrices == {Stretch, Shift}

(***************************************************************************)
(* tracker.rs: Tracked<T>                                                  *)
(***************************************************************************)
Unmodified(x) == [state |-> "Unmodified", inner |-> x]

Modified(x) == [state |-> "Modified", inner |-> x]

\* a constructor that starts in the Modified state
Tracked_new_modified(x) == Modified(x)

Tracked_new(x) == Unmodified(x)

is_unmodified(t) == t.state = "Unmodified"

is_modified(t) == t.state = "Modified"

\* a reset() that always reports that it cleared something
reset_reports_always(t) == [self |-> Unmodified(t.inner), did_something |-> TRUE]

\* a reset() that reports but leaves the state as it is
reset_keep(t) == [self |-> t, did_something |-> is_modified(t)]

\* reset(): the wrapper afterwards and the returned did_something
reset(t) == [self |-> Unmodified(t.inner), did_something |-> is_modified(t)]

deref(t) == t.inner

\* a read access that marks the wrapper, as a write access does
after_deref_marking(t) == [state |-> "Modified", inner |-> t.inner]

\* deref(&self), is_modified(&self), is_unmodified(&self): the wrapper after
\* the access
after_deref(t) == t

\* a deref_mut() that grants the access without marking
deref_mut_nomark(t) == t

\* a deref_mut() that flips the state on every access
deref_mut_toggle(t) ==
    IF is_modified(t) THEN Unmodified(t.inner) ELSE Modified(t.inner)

\* deref_mut(): the wrapper after the access (the value is written afterwards)

deref_mut(t) == Modified(t.inner)

(***************************************************************************)
(* scene.rs: SceneNode                                                     *)
(***************************************************************************)
\* a constructor that starts the cache at the identity, whatever trans is
SceneNode_new_identity_cache(trans) ==
    [ df_index            |-> Tracked_new(0),
      cache               |-> Tracked_new(Identity),
      transform           |-> Tracked_new(trans),
      child_count_changed |-> FALSE,
      quad_count_changed  |-> FALSE,
      children            |-> << >>,
      quads               |-> << >> ]

\* SceneNode::new(trans)
SceneNode_new(trans) ==
    [ df_index            |-> Tracked_new(0),
      cache               |-> Tracked_new(trans),
      transform           |-> Tracked_new(trans),
      child_count_changed |-> FALSE,
      quad_count_changed  |-> FALSE,
      children            |-> << >>,
      quads               |-> << >> ]

RECURSIVE assign_df_indices(_, _)

\* an assign_df_indices that stores the indices without going through
\* DerefMut of the node wrappers and of the index wrappers
assign_df_indices_unmarked(parent_index, nodes) ==
    [c \in 1..Len(nodes) |->
        LET cur_idx == parent_index + (c - 1)
        IN  [nodes[c] EXCEPT
               !.inner.df_index = [@ EXCEPT !.inner = cur_idx],
               !.inner.children = assign_df_indices(cur_idx, @)]]

\* assign_df_indices(parent_index, nodes): the nodes afterwards
assign_df_indices(parent_index, nodes) ==
    [c \in 1..Len(nodes) |->
        LET cur_idx == parent_index + (c - 1)
            \* *((*node).df_index) = cur_idx
            n1 == deref_mut(nodes[c])
            n2 == [n1 EXCEPT !.inner.df_index = Modified(cur_idx)]
            \* node.get_children_mut()
            n3 == deref_mut(n2)
        IN  [n3 EXCEPT !.inner.children = assign_df_indices(cur_idx, @)]]

\* an add_child that inserts the new child in front of the others
add_child_front(self, node) ==
    LET len == Len(self.children)
        node1 == [node EXCEPT !.df_index = Tracked_new(len)]
        node2 == [node1 EXCEPT
                    !.children = assign_df_indices(deref(node1.df_index), @)]
        new == Tracked_new(node2)
    IN  [self EXCEPT !.child_count_changed = TRUE,
                     !.children = <<new>> \o @]

\* self.add_child(node): self afterwards
add_child(self, node) ==
    LET len == Len(self.children)
        node1 == [node EXCEPT !.df_index = Tracked_new(len)]
        node2 == [node1 EXCEPT
                    !.children = assign_df_indices(deref(node1.df_index), @)]
        new == Tracked_new(node2)
    IN  [self EXCEPT !.child_count_changed = TRUE,
                     !.children = Append(@, new)]

\* *node.transform = m on a SceneNode
set_transform(node, m) ==
    [node EXCEPT !.transform = [deref_mut(@) EXCEPT !.inner = m]]

(***************************************************************************)
(* Paths                                                                   *)
(***************************************************************************)
\* the paths of the nodes of the subtree of SceneNode n
RECURSIVE PathsOf(_)
PathsOf(n) ==
    {<< >>} \cup UNION { { <<i>> \o p : p \in PathsOf(n.children[i].inner) }
                         : i \in 1..Len(n.children) }

\* the SceneNode at path p below SceneNode n (read access)
RECURSIVE NodeAt(_, _)
NodeAt(n, p) ==
    IF p = << >> THEN n ELSE NodeAt(n.children[Head(p)].inner, Tail(p))

\* the Tracked<SceneNode> wrapper at non-empty path p below SceneNode n
RECURSIVE WrapperAt(_, _)
WrapperAt(n, p) ==
    IF Len(p) = 1 THEN n.children[Head(p)]
    ELSE WrapperAt(n.children[Head(p)].inner, Tail(p))

\* the number of nodes of the subtree of SceneNode n
Size(n) == Cardinality(PathsOf(n))

\* the proper prefixes of path p, the empty path (the root) included
ProperPrefixes(p) == { SubSeq(p, 1, k) : k \in 0..(Len(p) - 1) }

\* mutable access to the node at path p below the wrapper t, as the borrow
\* rules force it: deref_mut of t, get_children_mut()[i], deref_mut of that
\* child, ... down to the node, which is then replaced by new
RECURSIVE AccessMut(_, _, _)
AccessMut(t, p, new) ==
    IF p = << >>
    THEN [deref_mut(t) EXCEPT !.inner = new]
    ELSE [deref_mut(t) EXCEPT
            !.inner.children[Head(p)] = AccessMut(@, Tail(p), new)]

(***************************************************************************)
(* scene.rs: the two whole-tree passes                                     *)
(***************************************************************************)
RECURSIVE compute_cache(_, _, _, _)

\* a compute_cache that, under an Unmodified parent, descends into every
\* child, whatever the state of the child's wrapper
compute_cache_descend_all(parent, mat, cache, children) ==
    LET cache1 == IF is_unmodified(parent) THEN cache
                  ELSE [deref_mut(cache) EXCEPT
                          !.inner = mul_to(deref(parent), deref(mat), @)]
    IN  [ cache    |-> cache1,
          children |-> [i \in 1..Len(children) |->
             LET c1 == deref_mut(children[i])
                 r  == compute_cache(cache1, c1.inner.transform,
                                     c1.inner.cache, c1.inner.children)
             IN  [c1 EXCEPT !.inner.cache = r.cache,
                            !.inner.children = r.children]] ]

\* a compute_cache that, under a Modified parent, descends into the Modified
\* children only
compute_cache_skip_clean(parent, mat, cache, children) ==
    LET cache1 == IF is_unmodified(parent) THEN cache
                  ELSE [deref_mut(cache) EXCEPT
                          !.inner = mul_to(deref(parent), deref(mat), @)]
    IN  [ cache    |-> cache1,
          children |-> [i \in 1..Len(children) |->
             LET child == children[i]
             IN  IF is_unmodified(child)
                 THEN child
                 ELSE LET c1 == deref_mut(child)
                          r  == compute_cache(cache1, c1.inner.transform,
                                              c1.inner.cache, c1.inner.children)
                      IN  [c1 EXCEPT !.inner.cache = r.cache,
                                     !.inner.children = r.children]] ]

\* a compute_cache that writes the cache without going through DerefMut of
\* the cache wrapper
compute_cache_silent(parent, mat, cache, children) ==
    LET cache1 == IF is_unmodified(parent) THEN cache
                  ELSE [cache EXCEPT
                          !.inner = mul_to(deref(parent), deref(mat), @)]
    IN  [ cache    |-> cache1,
          children |-> [i \in 1..Len(children) |->
             LET child == children[i]
             IN  IF is_unmodified(parent) /\ is_unmodified(child)
                 THEN child
                 ELSE LET c1 == deref_mut(child)
                          r  == compute_cache(
                                  IF is_unmodified(parent) THEN cache1
                                  ELSE Modified(deref(cache1)),
                                  c1.inner.transform,
                                  c1.inner.cache, c1.inner.children)
                      IN  [c1 EXCEPT !.inner.cache = r.cache,
                                     !.inner.children = r.children]] ]

\* compute_cache(parent, mat, cache, children): cache and children afterwards
compute_cache(parent, mat, cache, children) ==
    IF is_unmodified(parent)
    THEN [ cache    |-> cache,
           children |-> [i \in 1..Len(children) |->
              LET child == children[i]
                  new_parent == cache
              IN  IF is_modified(child)
                  THEN LET c1 == deref_mut(child)
                           r  == compute_cache(new_parent, c1.inner.transform,
                                               c1.inner.cache,
                                               c1.inner.children)
                       IN  [c1 EXCEPT !.inner.cache = r.cache,
                                      !.inner.children = r.children]
                  ELSE child] ]
    ELSE LET \* parent.mul_to(mat, &mut **cache)
             cache1 == [deref_mut(cache) EXCEPT
                          !.inner = mul_to(deref(parent), deref(mat), @)]
             new_parent == cache1
         IN  [ cache    |-> cache1,
               children |-> [i \in 1..Len(children) |->
                  LET c1 == deref_mut(children[i])
                      r  == compute_cache(new_parent, c1.inner.transform,
                                          c1.inner.cache, c1.inner.children)
                  IN  [c1 EXCEPT !.inner.cache = r.cache,
                                 !.inner.children = r.children]] ]

\* SceneTree::new(node)
SceneTree_new(node) ==
    LET node1 == [node EXCEPT !.df_index = Tracked_new(0)]
        root  == Tracked_new(node1)
    IN  [root |-> root]

\* self.root_mut(): self afterwards.  The call returns &mut self.root, the
\* wrapper itself; no DerefMut of the wrapper is involved
root_mut(self) == self

\* a pass that hands the root an Unmodified identity parent
recompute_root_unmodified_parent(self) ==
    LET r0 == deref_mut(self.root)
        r  == compute_cache(Unmodified(Identity), r0.inner.transform,
                            r0.inner.cache, r0.inner.children)
    IN  [self EXCEPT !.root = [r0 EXCEPT !.inner.cache = r.cache,
                                         !.inner.children = r.children]]

\* the body of recompute_caches() under its if
recompute_root(self) ==
    LET r0 == deref_mut(self.root)
        r  == compute_cache(Modified(Identity), r0.inner.transform,
                            r0.inner.cache, r0.inner.children)
    IN  [self EXCEPT !.root = [r0 EXCEPT !.inner.cache = r.cache,
                                         !.inner.children = r.children]]

\* compute_cache(&par, transform, cache, new_children) on the fields of the
\* root, destructured as recompute_caches() destructures them: self afterwards
compute_cache_at_root(self, par) ==
    LET r0 == deref_mut(self.root)
        r  == compute_cache(par, r0.inner.transform,
                            r0.inner.cache, r0.inner.children)
    IN  [self EXCEPT !.root = [r0 EXCEPT !.inner.cache = r.cache,
                                         !.inner.children = r.children]]

\* a recompute_caches() without the test of the root wrapper
recompute_caches_always(self) == recompute_root(self)

\* self.recompute_caches(): self afterwards
recompute_caches(self) ==
    IF is_modified(self.root) THEN recompute_root(self) ELSE self

\* unset_modification(node): the wrapper afterwards
RECURSIVE unset_modification(_)
unset_modification(node) ==
    LET \* node.get_children_mut()
        n1 == deref_mut(node)
        n2 == [n1 EXCEPT !.inner.children =
                 [i \in 1..Len(@) |-> unset_modification(@[i])]]
    IN  reset(n2).self

\* self.unset_modifications(): self afterwards
unset_modifications(self) == [self EXCEPT !.root = unset_modification(@)]

\* the caller reads a node and everything below it: is_modified() on the
\* wrapper, cache(), the transform, get_children() / iter_children()
RECURSIVE display_node(_)
display_node(node) ==
    LET n1 == after_deref(node)
    IN  [n1 EXCEPT !.inner.cache = after_deref(@),
                   !.inner.transform = after_deref(@),
                   !.inner.children = [i \in 1..Len(@) |-> display_node(@[i])]]

\* tree.root() and the reads below it: self afterwards
display_tree(self) == [self EXCEPT !.root = display_node(@)]

(***************************************************************************)
(* State                                                                   *)
(*   pool    the SceneNode values the caller owns, not (yet) in the tree   *)
(*   tree    the SceneTree, or NoTree before SceneTree::new                *)
(*   lastOp  the last call made and the path of the node it was made on    *)
(*   prevOp  the call before that: the name of the pass, or "other"        *)
(*   tracker a single Tracked<i32>, as in the doc tests of tracker.rs      *)
(*   writes  the write accesses to tracker since Tracked::new or reset()   *)
(*   arg     the value passed to the last call on tracker                  *)
(*   returned  what the last call on tracker returned                      *)
(*   parentRef  the parent passed to the last direct call of compute_cache *)
(*   snapshot  the cache value of every node, by path, as the last         *)
(*             unset_modifications() left it; empty before the first       *)
(*   stack   the frames of the recursive calls of a pass that is being     *)
(*           followed call by call, the innermost last                     *)
(*   visits  how many times that pass was called on each node, by path     *)
(*   entry   the tree as that pass found it                                *)
(***************************************************************************)
NoTree == [none |-> TRUE]

HasTree == tree # NoTree

RemoveAt(s, j) == [k \in 1..(Len(s) - 1) |-> IF k < j THEN s[k] ELSE s[k + 1]]

RECURSIVE PoolSize(_)
PoolSize(s) == IF s = << >> THEN 0 ELSE Size(Head(s)) + PoolSize(Tail(s))

NodeCount == PoolSize(pool) + (IF HasTree THEN Size(tree.root.inner) ELSE 0)

Passes == {"recompute_caches", "unset_modifications"}

\* the cache values of the nodes of SceneNode n, by path
CacheValues(n) == [p \in PathsOf(n) |-> deref(NodeAt(n, p).cache)]

\* the call name(...) on the node at path has returned
Returned(name, path) ==
    /\ lastOp' = [name |-> name, path |-> path]
    /\ prevOp' = IF lastOp.name \in Passes THEN lastOp.name ELSE "other"
    /\ snapshot' = IF name = "unset_modifications"
                   THEN CacheValues(tree'.root.inner)
                   ELSE snapshot

Called(name, path) ==
    /\ Returned(name, path)
    /\ UNCHANGED <<tracker, writes, arg, returned, parentRef,
                   stack, visits, entry>>

Init ==
    /\ pool = << >>
    /\ tree = NoTree
    /\ lastOp = [name |-> "init", path |-> << >>]
    /\ prevOp = "other"
    /\ tracker = Tracked_new(5)
    /\ writes = 0
    /\ arg = 5
    /\ returned = FALSE
    /\ parentRef = Modified(Identity)
    /\ snapshot = << >>
    /\ stack = << >>
    /\ visits = << >>
    /\ entry = NoTree

\* let n = SceneNode::new(t)
NewNode(t) ==
    /\ NodeCount < MaxNodes
    /\ pool' = Append(pool, SceneNode_new(t))
    /\ Called("SceneNode::new", << >>)
    /\ UNCHANGED tree

\* a.add_child(b) on two nodes the caller owns; b is moved into a
OwnedAddChild(i, j) ==
    /\ i # j
    /\ pool' = RemoveAt([pool EXCEPT ![i] = add_child(@, pool[j])], j)
    /\ Called("owned.add_child", << >>)
    /\ UNCHANGED tree

\* let tree = SceneTree::new(n)
NewTree(i) ==
    /\ ~HasTree
    /\ tree' = SceneTree_new(pool[i])
    /\ pool' = RemoveAt(pool, i)
    /\ Called("SceneTree::new", << >>)

\* tree.root_mut() ... .add_child(n) on the node at path p
TreeAddChild(p, j) ==
    /\ HasTree
    /\ p \in PathsOf(tree.root.inner)
    /\ LET target == NodeAt(tree.root.inner, p)
       IN  tree' = [tree EXCEPT
                     !.root = AccessMut(@, p, add_child(target, pool[j]))]
    /\ pool' = RemoveAt(pool, j)
    /\ Called("add_child", p)

\* *tree.root_mut() ... .transform = m on the node at path p
TreeSetTransform(p, m) ==
    /\ HasTree
    /\ p \in PathsOf(tree.root.inner)
    /\ LET target == NodeAt(tree.root.inner, p)
       IN  tree' = [tree EXCEPT
                     !.root = AccessMut(@, p, set_transform(target, m))]
    /\ Called("transform", p)
    /\ UNCHANGED pool

\* tree.root_mut() ... .get_children_mut() / iter_children_mut() on the node
\* at path p, nothing written through the result
TreeGetChildrenMut(p) ==
    /\ HasTree
    /\ p \in PathsOf(tree.root.inner)
    /\ tree' = [tree EXCEPT
                  !.root = AccessMut(@, p, NodeAt(tree.root.inner, p))]
    /\ Called("get_children_mut", p)
    /\ UNCHANGED pool

\* tree.recompute_caches()
RecomputeCaches ==
    /\ HasTree
    /\ tree' = recompute_caches(tree)
    /\ Called("recompute_caches", << >>)
    /\ UNCHANGED pool

\* tree.unset_modifications()
UnsetModifications ==
    /\ HasTree
    /\ tree' = unset_modifications(tree)
    /\ Called("unset_modifications", << >>)
    /\ UNCHANGED pool

\* tree.root(), cache(), get_children(), iter_children(), is_modified(): the
\* caller reads the tree
ReadTree ==
    /\ HasTree
    /\ tree' = display_tree(tree)
    /\ Called("read", << >>)
    /\ UNCHANGED pool

Build ==
    \/ \E t \in Transforms : NewNode(t)
    \/ \E i \in 1..Len(pool), j \in 1..Len(pool) : OwnedAddChild(i, j)
    \/ \E i \in 1..Len(pool) : NewTree(i)

Mutate ==
    \/ \E p \in PathsOf(tree.root.inner), j \in 1..Len(pool) :
          TreeAddChild(p, j)
    \/ \E p \in PathsOf(tree.root.inner), m \in Transforms :
          TreeSetTransform(p, m)
    \/ \E p \in PathsOf(tree.root.inner) : TreeGetChildrenMut(p)

Next ==
    \/ Build
    \/ HasTree /\ Mutate
    \/ RecomputeCaches
    \/ UnsetModifications
    \/ ReadTree

Spec == Init /\ [][Next]_vars

(***************************************************************************)
(* The per-frame protocol of the rendering layer: mutate; recompute_caches *)
(* once; read the caches; unset_modifications once.  Building the tree is  *)
(* part of the first frame's mutation phase.                               *)
(***************************************************************************)
InMutatePhase == lastOp.name \notin {"recompute_caches", "read"}

FrameNext ==
    \/ InMutatePhase /\ Build
    \/ InMutatePhase /\ HasTree /\ Mutate
    \/ InMutatePhase /\ RecomputeCaches
    \/ lastOp.name = "recompute_caches" /\ ReadTree
    \/ lastOp.name = "read" /\ UnsetModifications

FrameSpec == Init /\ [][FrameNext]_vars

(***************************************************************************)
(* Building and growing a tree of up to MaxIndexNodes nodes that all have  *)
(* the identity as local transform: the positional indices depend on the   *)
(* order of the add_child calls only.                                      *)
(***************************************************************************)
\* let n = SceneNode::new(Mat4::identity())
NewIdentityNode ==
    /\ NodeCount < MaxIndexNodes
    /\ pool' = Append(pool, SceneNode_new(Identity))
    /\ Called("SceneNode::new", << >>)
    /\ UNCHANGED tree

IndexNext ==
    \/ NewIdentityNode
    \/ \E i \in 1..Len(pool), j \in 1..Len(pool) : OwnedAddChild(i, j)
    \/ \E i \in 1..Len(pool) : NewTree(i)
    \/ HasTree /\ \E p \in PathsOf(tree.root.inner), j \in 1..Len(pool) :
                     TreeAddChild(p, j)

IndexSpec == Init /\ [][IndexNext]_vars

(***************************************************************************)
(* Subtrees of up to MaxBuildNodes nodes in all, built with add_child on   *)
(* owned nodes and inserted with add_child into a tree whose caches        *)
(* recompute_caches() has written.                                         *)
(***************************************************************************)
\* let n = SceneNode::new(t)
NewBuildNode(t) ==
    /\ NodeCount < MaxBuildNodes
    /\ pool' = Append(pool, SceneNode_new(t))
    /\ Called("SceneNode::new", << >>)
    /\ UNCHANGED tree

BuildNext ==
    \/ \E t \in Transforms : NewBuildNode(t)
    \/ \E i \in 1..Len(pool), j \in 1..Len(pool) : OwnedAddChild(i, j)
    \/ \E i \in 1..Len(pool) : NewTree(i)
    \/ HasTree /\ \E p \in PathsOf(tree.root.inner), j \in 1..Len(pool) :
                     TreeAddChild(p, j)
    \/ RecomputeCaches

BuildSpec == Init /\ [][BuildNext]_vars

(***************************************************************************)
(* The calls a caller makes through root_mut(): the accessor alone, and    *)
(* add_child, a transform write and get_children_mut() on what it returns, *)
(* between the two passes.                                                 *)
(***************************************************************************)
\* let _ = tree.root_mut(), nothing called on the result
RootMut ==
    /\ HasTree
    /\ tree' = root_mut(tree)
    /\ Called("root_mut", << >>)
    /\ UNCHANGED pool

RootNext ==
    \/ Build
    \/ RootMut
    \/ HasTree /\ \E j \in 1..Len(pool) : TreeAddChild(<< >>, j)
    \/ HasTree /\ \E m \in Transforms : TreeSetTransform(<< >>, m)
    \/ HasTree /\ TreeGetChildrenMut(<< >>)
    \/ RecomputeCaches
    \/ UnsetModifications

RootSpec == Init /\ [][RootNext]_vars

(***************************************************************************)
(* compute_cache called directly on the root of a tree of up to            *)
(* MaxCacheNodes nodes, with any parent reference: both branches of the    *)
(* procedure, at every level.  The node wrappers are marked through        *)
(* get_children_mut() and cleared by unset_modifications().                *)
(***************************************************************************)
\* let n = SceneNode::new(t), t one of Matrices
NewMatrixNode(t) ==
    /\ NodeCount < MaxCacheNodes
    /\ pool' = Append(pool, SceneNode_new(t))
    /\ Called("SceneNode::new", << >>)
    /\ UNCHANGED tree

\* the parent references: either state, either matrix
ParentRefs == { Unmodified(m) : m \in Matrices } \cup { Modified(m) : m \in Matrices }

\* compute_cache(&par, ...) on the root
ComputeCache(par) ==
    /\ HasTree
    /\ tree' = compute_cache_at_root(tree, par)
    /\ lastOp' = [name |-> "compute_cache", path |-> << >>]
    /\ prevOp' = IF lastOp.name \in Passes THEN lastOp.name ELSE "other"
    /\ parentRef' = par
    /\ UNCHANGED <<pool, tracker, writes, arg, returned, snapshot,
                   stack, visits, entry>>

CacheNext ==
    \/ \E t \in Matrices : NewMatrixNode(t)
    \/ \E i \in 1..Len(pool), j \in 1..Len(pool) : OwnedAddChild(i, j)
    \/ \E i \in 1..Len(pool) : NewTree(i)
    \/ HasTree /\ \E p \in PathsOf(tree.root.inner) : TreeGetChildrenMut(p)
    \/ UnsetModifications
    \/ \E par \in ParentRefs : ComputeCache(par)

CacheSpec == Init /\ [][CacheNext]_vars

(***************************************************************************)
(* The two passes followed call by call.  A frame of stack is one call of  *)
(* compute_cache or of unset_modification: the path of the node it is on,  *)
(* the children its loop has still to take (todo) and, for compute_cache,  *)
(* the parent reference it was given.  One step runs the innermost call up *)
(* to its next recursive call or to its return.  While a pass runs nothing *)
(* else touches the tree (&mut self).                                      *)
(***************************************************************************)
\* an iterator that yields every child twice
iter_mut_twice(children) ==
    [i \in 1..Len(children) |-> i] \o [i \in 1..Len(children) |-> i]

\* children.iter_mut(), node.get_children_mut() in a for loop: the positions
\* of the children the loop takes, in order
iter_mut(children) == [i \in 1..Len(children) |-> i]

\* the wrapper at path p below (and including) the wrapper w
WrapperOf(w, p) == IF p = << >> THEN w ELSE WrapperAt(w.inner, p)

\* the wrapper w with the wrapper at path p replaced by new, through the
\* mutable borrows the running calls hold (no DerefMut on the way)
RECURSIVE PutWrapper(_, _, _)
PutWrapper(w, p, new) ==
    IF p = << >> THEN new
    ELSE [w EXCEPT !.inner.children[Head(p)] = PutWrapper(@, Tail(p), new)]

Walking == stack # << >>

Top == stack[Len(stack)]

Pop == SubSeq(stack, 1, Len(stack) - 1)

\* the innermost call with one child less to take
Advanced == [stack EXCEPT ![Len(stack)].todo = Tail(@)]

Visit(p) == [visits EXCEPT ![p] = @ + 1]

\* the pass name(...) followed call by call has returned
WalkReturned(name) ==
    /\ Returned(name, << >>)
    /\ UNCHANGED <<pool, tracker, writes, arg, returned, parentRef>>

\* the pass is still running
WalkContinues ==
    UNCHANGED <<pool, lastOp, prevOp, snapshot, tracker, writes, arg,
                returned, parentRef, entry>>

\* let n = SceneNode::new(t)
NewWalkNode(t) ==
    /\ NodeCount < MaxWalkNodes
    /\ pool' = Append(pool, SceneNode_new(t))
    /\ Called("SceneNode::new", << >>)
    /\ UNCHANGED tree

\* the first statement of compute_cache(parent, transform, cache, ...) on the
\* node in wrapper w: w afterwards
enter_compute_cache(w, par) ==
    IF is_unmodified(par) THEN w
    ELSE [w EXCEPT !.inner.cache =
            [deref_mut(@) EXCEPT
               !.inner = mul_to(deref(par), deref(w.inner.transform), @)]]

\* tree.recompute_caches() is called
CallRecomputeCaches ==
    /\ HasTree
    /\ entry' = tree
    /\ visits' = [q \in PathsOf(tree.root.inner) |->
                    IF q = << >> /\ is_modified(tree.root) THEN 1 ELSE 0]
    /\ IF is_modified(tree.root)
       THEN LET r0  == deref_mut(tree.root)
                par == Modified(Identity)
            IN  /\ tree' = [tree EXCEPT !.root = enter_compute_cache(r0, par)]
                /\ stack' = << [fn |-> "compute_cache", path |-> << >>,
                                parent |-> par,
                                todo |-> iter_mut(r0.inner.children)] >>
                /\ UNCHANGED <<pool, lastOp, prevOp, snapshot, tracker, writes,
                               arg, returned, parentRef>>
       ELSE /\ tree' = tree
            /\ stack' = << >>
            /\ WalkReturned("recompute_caches")

\* the innermost compute_cache runs to its next recursive call or returns
StepComputeCache ==
    /\ Walking
    /\ Top.fn = "compute_cache"
    /\ IF Top.todo = << >>
       THEN /\ stack' = Pop
            /\ UNCHANGED <<tree, visits>>
            /\ IF Pop = << >>
               THEN WalkReturned("recompute_caches") /\ UNCHANGED entry
               ELSE WalkContinues
       ELSE LET q          == Top.path \o <<Head(Top.todo)>>
                child      == WrapperOf(tree.root, q)
                new_parent == WrapperOf(tree.root, Top.path).inner.cache
            IN  IF is_unmodified(Top.parent) /\ ~is_modified(child)
                THEN /\ stack' = Advanced
                     /\ UNCHANGED <<tree, visits>>
                     /\ WalkContinues
                ELSE LET c1 == deref_mut(child)
                     IN  /\ tree' = [tree EXCEPT !.root =
                                 PutWrapper(@, q,
                                    enter_compute_cache(c1, new_parent))]
                         /\ stack' = Append(Advanced,
                                 [fn |-> "compute_cache", path |-> q,
                                  parent |-> new_parent,
                                  todo |-> iter_mut(c1.inner.children)])
                         /\ visits' = Visit(q)
                         /\ WalkContinues

\* tree.unset_modifications() is called
CallUnsetModifications ==
    /\ HasTree
    /\ entry' = tree
    /\ visits' = [q \in PathsOf(tree.root.inner) |->
                    IF q = << >> THEN 1 ELSE 0]
    /\ LET n1 == deref_mut(tree.root)
       IN  /\ tree' = [tree EXCEPT !.root = n1]
           /\ stack' = << [fn |-> "unset_modification", path |-> << >>,
                           todo |-> iter_mut(n1.inner.children)] >>
    /\ UNCHANGED <<pool, lastOp, prevOp, snapshot, tracker, writes, arg,
                   returned, parentRef>>

\* the innermost unset_modification runs to its next recursive call or
\* resets its node and returns
StepUnsetModification ==
    /\ Walking
    /\ Top.fn = "unset_modification"
    /\ IF Top.todo = << >>
       THEN /\ tree' = [tree EXCEPT !.root =
                          PutWrapper(@, Top.path,
                             reset(WrapperOf(tree.root, Top.path)).self)]
            /\ stack' = Pop
            /\ UNCHANGED visits
            /\ IF Pop = << >>
               THEN WalkReturned("unset_modifications") /\ UNCHANGED entry
               ELSE WalkContinues
       ELSE LET q  == Top.path \o <<Head(Top.todo)>>
                n1 == deref_mut(WrapperOf(tree.root, q))
            IN  /\ tree' = [tree EXCEPT !.root = PutWrapper(@, q, n1)]
                /\ stack' = Append(Advanced,
                              [fn |-> "unset_modification", path |-> q,
                               todo |-> iter_mut(n1.inner.children)])
                /\ visits' = Visit(q)
                /\ WalkContinues

WalkStep == StepComputeCache \/ StepUnsetModification

WalkNext ==
    \/ ~Walking /\ \E t \in Transforms : NewWalkNode(t)
    \/ ~Walking /\ \E i \in 1..Len(pool), j \in 1..Len(pool) : OwnedAddChild(i, j)
    \/ ~Walking /\ \E i \in 1..Len(pool) : NewTree(i)
    \/ ~Walking /\ HasTree
          /\ \E p \in PathsOf(tree.root.inner) : TreeGetChildrenMut(p)
    \/ ~Walking /\ CallRecomputeCaches
    \/ ~Walking /\ CallUnsetModifications
    \/ StepComputeCache
    \/ StepUnsetModification

\* the code is sequential: a pass that was called keeps running
WalkSpec == Init /\ [][WalkNext]_vars /\ WF_vars(WalkStep)

(***************************************************************************)
(* A single Tracked<i32> and the calls of the doc tests of tracker.rs made *)
(* on it in any order.                                                     *)
(***************************************************************************)
Values == {3, 4, 5}

CalledOnTracker(name) ==
    /\ lastOp' = [name |-> name, path |-> << >>]
    /\ prevOp' = "other"
    /\ UNCHANGED <<pool, tree, parentRef, snapshot, stack, visits, entry>>

\* let mut tracker = Tracked::new(v)
TrackedNew(v) ==
    /\ tracker' = Tracked_new(v)
    /\ writes' = 0
    /\ arg' = v
    /\ CalledOnTracker("Tracked::new")
    /\ UNCHANGED returned

\* *tracker = v
TrackedWrite(v) ==
    /\ writes < MaxWrites
    /\ tracker' = [deref_mut(tracker) EXCEPT !.inner = v]
    /\ writes' = writes + 1
    /\ arg' = v
    /\ CalledOnTracker("write")
    /\ UNCHANGED returned

\* a write-capable access that writes nothing: let _ = &mut *tracker
TrackedDerefMut ==
    /\ writes < MaxWrites
    /\ tracker' = deref_mut(tracker)
    /\ writes' = writes + 1
    /\ CalledOnTracker("deref_mut")
    /\ UNCHANGED <<arg, returned>>

\* *tracker read
TrackedDeref ==
    /\ tracker' = after_deref(tracker)
    /\ returned' = deref(tracker)
    /\ CalledOnTracker("deref")
    /\ UNCHANGED <<writes, arg>>

\* tracker.is_modified()
TrackedIsModified ==
    /\ tracker' = after_deref(tracker)
    /\ returned' = is_modified(tracker)
    /\ CalledOnTracker("is_modified")
    /\ UNCHANGED <<writes, arg>>

\* tracker.is_unmodified()
TrackedIsUnmodified ==
    /\ tracker' = after_deref(tracker)
    /\ returned' = is_unmodified(tracker)
    /\ CalledOnTracker("is_unmodified")
    /\ UNCHANGED <<writes, arg>>

\* tracker.reset()
TrackedReset ==
    /\ tracker' = reset(tracker).self
    /\ returned' = reset(tracker).did_something
    /\ writes' = 0
    /\ CalledOnTracker("reset")
    /\ UNCHANGED arg

TrackedNext ==
    \/ \E v \in Values : TrackedNew(v)
    \/ \E v \in Values : TrackedWrite(v)
    \/ TrackedDerefMut
    \/ TrackedDeref
    \/ TrackedIsModified
    \/ TrackedIsUnmodified
    \/ TrackedReset

TrackedSpec == Init /\ [][TrackedNext]_vars

(***************************************************************************)
(* Observations of a SceneTree t                                           *)
(***************************************************************************)
Paths(t) == PathsOf(t.root.inner)

\* the Tracked<SceneNode> wrapper of the node at path p
NodeWrapper(t, p) == IF p = << >> THEN t.root ELSE WrapperAt(t.root.inner, p)

Node(t, p) == NodeAt(t.root.inner, p)

CacheOf(t, p) == deref(Node(t, p).cache)

TransformOf(t, p) == deref(Node(t, p).transform)

ParentOf(p) == SubSeq(p, 1, Len(p) - 1)

IsLeaf(t, p) == p # << >> /\ Len(Node(t, p).children) = 0

\* the product of the local transforms on the path from the root to p
RECURSIVE PathProduct(_, _)
PathProduct(t, p) ==
    IF p = << >> THEN TransformOf(t, p)
    ELSE MatMul(PathProduct(t, ParentOf(p)), TransformOf(t, p))

\* the cache values of all nodes
Caches(t) == [p \in Paths(t) |-> CacheOf(t, p)]

AllCachesResolved(t) == \A p \in Paths(t) : CacheOf(t, p) = PathProduct(t, p)

WorldTransformInvariant(t) ==
    \A p \in Paths(t) :
        IF p = << >> THEN CacheOf(t, p) = TransformOf(t, p)
        ELSE CacheOf(t, p) = MatMul(CacheOf(t, ParentOf(p)), TransformOf(t, p))

TreeMutations == {"add_child", "transform", "get_children_mut"}

(***************************************************************************)
(* Claims                                                                  *)
(***************************************************************************)

\* C1: once recompute_caches() has returned, every non-root node N with
\* parent P has cache(N) = cache(P) * transform(N), and the root has
\* cache(root) = transform(root).
C1_WorldTransformAfterRecompute ==
    (HasTree /\ lastOp.name = "recompute_caches")
        => WorldTransformInvariant(tree)

\* C2: SceneTree::new(root_node) leaves the root wrapper Modified.
C2_NewTreeRootModified ==
    lastOp.name = "SceneTree::new" => is_modified(tree.root)

\* C3: for a tree built only with SceneNode::new, add_child and
\* SceneTree::new, one recompute_caches() leaves every node's cache equal to
\* the product of the local transforms on the path from the root to the node.
C3_FirstRecomputeResolvesAll ==
    [][ (lastOp.name = "SceneTree::new" /\ lastOp'.name = "recompute_caches")
            => AllCachesResolved(tree') ]_vars

C5_NoStaleCacheAtRead ==
    lastOp.name = "read" => AllCachesResolved(tree)

\* C6: after unset_modifications() every node wrapper, transform wrapper and
\* cache wrapper of the tree is Unmodified.
C6_ResetClearsEverything ==
    lastOp.name = "unset_modifications"
        => \A p \in Paths(tree) :
              /\ is_unmodified(NodeWrapper(tree, p))
              /\ is_unmodified(Node(tree, p).transform)
              /\ is_unmodified(Node(tree, p).cache)

\* C7: recompute_caches() on a tree whose root wrapper is Unmodified changes
\* nothing in the tree: no value and no wrapper state.
C7_FastPathNoOp ==
    [][ (HasTree /\ is_unmodified(tree.root)
           /\ lastOp'.name = "recompute_caches")
            => tree' = tree ]_vars

\* C7 witness: recompute_caches() has returned on a tree with children whose
\* root wrapper is Unmodified (a pass that ran would have left it Modified).
C7_Witness ==
    /\ HasTree
    /\ lastOp.name = "recompute_caches"
    /\ is_unmodified(tree.root)
    /\ Len(tree.root.inner.children) > 0

\* C8: a recompute_caches() that directly follows a recompute_caches() leaves
\* every node's cache value as the first call left it.
C8_RecomputeIdempotent ==
    [][ (lastOp.name = "recompute_caches"
           /\ lastOp'.name = "recompute_caches")
            => Caches(tree') = Caches(tree) ]_vars

\* C8 witness: two calls in a row, both on a Modified root (so both ran the
\* pass), on a tree with a grandchild whose cache differs from its transform.
C8_Witness ==
    /\ HasTree
    /\ prevOp = "recompute_caches"
    /\ lastOp.name = "recompute_caches"
    /\ is_modified(tree.root)
    /\ \E p \in Paths(tree) :
          Len(p) = 2 /\ CacheOf(tree, p) # TransformOf(tree, p)

\* C9: under the per-frame protocol, when the only mutation of a frame is a
\* write of one leaf's local transform, the following recompute_caches()
\* changes the cache value of no node outside the path from the root to that
\* leaf: every sibling subtree keeps its cache values.
C9_LocalityOfInvalidation ==
    [][ (prevOp = "unset_modifications"
           /\ lastOp.name = "transform" /\ IsLeaf(tree, lastOp.path)
           /\ lastOp'.name = "recompute_caches")
            => \A p \in Paths(tree) \
                        (ProperPrefixes(lastOp.path) \cup {lastOp.path}) :
                  CacheOf(tree', p) = CacheOf(tree, p) ]_vars

\* C10: a recompute_caches() that directly follows unset_modifications()
\* finds the root wrapper Unmodified and leaves every cache value unchanged.
C10_RecomputeAfterUnset ==
    [][ (lastOp.name = "unset_modifications"
           /\ lastOp'.name = "recompute_caches")
            => (is_unmodified(tree.root) /\ Caches(tree') = Caches(tree)) ]_vars

\* C10 witness: recompute_caches() has returned right after
\* unset_modifications() on a tree with three nodes.
C10_Witness ==
    /\ HasTree
    /\ prevOp = "unset_modifications"
    /\ lastOp.name = "recompute_caches"
    /\ is_unmodified(tree.root)
    /\ Cardinality(Paths(tree)) = 3

\* the positional index of the node at path p
IndexOf(t, p) == deref(Node(t, p).df_index)

\* C11: when recompute_caches() has run on a Modified root wrapper, the
\* root's cache equals the root's local transform and the root's cache
\* wrapper is Modified.
C11_RootCacheForced ==
    (HasTree /\ lastOp.name = "recompute_caches" /\ is_modified(tree.root))
        => /\ CacheOf(tree, << >>) = TransformOf(tree, << >>)
           /\ is_modified(Node(tree, << >>).cache)

\* C11 witness: the pass has run on a root whose transform was written to a
\* value other than the one it was constructed with.
C11_Witness ==
    /\ HasTree
    /\ lastOp.name = "recompute_caches"
    /\ is_modified(tree.root)
    /\ is_modified(Node(tree, << >>).transform)
    /\ CacheOf(tree, << >>) = Scale(2)
    /\ Len(tree.root.inner.children) > 0

\* C12: add_child(node) stores the new child in a node wrapper that is
\* Modified, the child's transform and cache wrappers being Unmodified.
C12_AddedChildModified ==
    lastOp.name = "add_child"
        => LET kids == Node(tree, lastOp.path).children
               new  == kids[Len(kids)]
           IN  /\ is_modified(new)
               /\ is_unmodified(new.inner.transform)
               /\ is_unmodified(new.inner.cache)

\* C14: no two distinct nodes of a tree have the same positional index.
C14_UniqueSlotPerNode ==
    HasTree
        => \A p \in Paths(tree), q \in Paths(tree) :
              p # q => IndexOf(tree, p) # IndexOf(tree, q)

\* new is old with one element appended
Appended(old, new) ==
    Len(new) = Len(old) + 1 /\ SubSeq(new, 1, Len(old)) = old

\* what identifies the node at each path: its local transform and its index
Skeleton(t) == [p \in Paths(t) |-> <<TransformOf(t, p), IndexOf(t, p)>>]

\* C15: add_child puts the new child after the children already present and
\* leaves those at their positions, on a node of the tree and on an owned
\* node alike; recompute_caches() and unset_modifications() leave every node
\* at its position.
C15_AddChildAppends ==
    [][ /\ lastOp'.name = "add_child"
            => LET old == Node(tree, lastOp'.path).children
                   new == Node(tree', lastOp'.path).children
               IN  /\ Appended(old, new)
                   /\ \E j \in 1..Len(pool) :
                         /\ pool' = RemoveAt(pool, j)
                         /\ new[Len(new)].inner.transform = pool[j].transform
        /\ lastOp'.name = "owned.add_child"
            => \E i \in 1..Len(pool), j \in 1..Len(pool) :
                  /\ i # j
                  /\ Len(pool') = Len(pool) - 1
                  /\ LET new == pool'[IF j < i THEN i - 1 ELSE i].children
                     IN  /\ Appended(pool[i].children, new)
                         /\ new[Len(new)].inner.transform = pool[j].transform
        /\ (HasTree /\ lastOp'.name \in Passes)
            => Skeleton(tree') = Skeleton(tree) ]_vars

\* C15 witness: a second child was added to a node of the tree whose first
\* child has another local transform.
C15_Witness ==
    /\ lastOp.name = "add_child"
    /\ LET kids == Node(tree, lastOp.path).children
       IN  /\ Len(kids) = 2
           /\ deref(kids[1].inner.transform) # deref(kids[2].inner.transform)

\* C20: reading the tree (root(), cache(), get_children(), iter_children(),
\* Deref and the predicates on every wrapper) changes no wrapper state and no
\* value of the tree.
C20_ReadsChangeNothing ==
    [][ lastOp'.name = "read" => tree' = tree ]_vars

\* C20 witness: the tree was read while it held three nodes, with Modified
\* and Unmodified node wrappers among them.
C20_Witness ==
    /\ lastOp.name = "read"
    /\ Cardinality(Paths(tree)) = 3
    /\ \E p \in Paths(tree), q \in Paths(tree) :
          is_modified(NodeWrapper(tree, p)) /\ is_unmodified(NodeWrapper(tree, q))

\* the paths of the proper descendants of the node at path p
DescendantsOf(t, p) ==
    { q \in Paths(t) : Len(q) > Len(p) /\ SubSeq(q, 1, Len(p)) = p }

\* C13: add_child(node) on the node at path p gives the new child the index
\* (index of the node at p) + (0-based position of the child), and every
\* descendant of the child the index (index of its parent) + (its own 0-based
\* position).
C13_IndexFormula ==
    [][ lastOp'.name = "add_child"
            => LET p     == lastOp'.path
                   pos   == Len(Node(tree', p).children)
                   child == p \o <<pos>>
               IN  /\ IndexOf(tree', child) = IndexOf(tree', p) + (pos - 1)
                   /\ \A q \in DescendantsOf(tree', child) :
                         IndexOf(tree', q)
                            = IndexOf(tree', ParentOf(q)) + (q[Len(q)] - 1) ]_vars

WriteAccesses == {"write", "deref_mut"}

\* C16: a Tracked wrapper goes from Unmodified to Modified only by a write
\* access and from Modified to Unmodified only by reset(); it is Modified
\* exactly when a write access happened since its construction or its last
\* reset().
C16_DirtyBitMonotonic ==
    [][ /\ (lastOp'.name # "Tracked::new"
              /\ is_unmodified(tracker) /\ is_modified(tracker'))
            => lastOp'.name \in WriteAccesses
        /\ (lastOp'.name # "Tracked::new"
              /\ is_modified(tracker) /\ is_unmodified(tracker'))
            => lastOp'.name = "reset"
        /\ is_modified(tracker') <=> writes' > 0 ]_vars

\* C16 witness: the wrapper is Modified after two write accesses in a row.
C16_Witness ==
    /\ writes >= 2
    /\ is_modified(tracker)
    /\ lastOp.name \in WriteAccesses

\* C17: a write-capable access leaves the wrapper Modified, from Unmodified
\* and from Modified alike, and by itself leaves the wrapped value as it was.
C17_WriteAccessMarks ==
    [][ /\ lastOp'.name = "deref_mut"
            => is_modified(tracker') /\ deref(tracker') = deref(tracker)
        /\ lastOp'.name = "write"
            => is_modified(tracker') /\ deref(tracker') = arg' ]_vars

\* C17 witness: a write-capable access that wrote nothing was made on a
\* wrapper that a write had already left Modified.
C17_Witness ==
    /\ lastOp.name = "deref_mut"
    /\ writes = 2
    /\ is_modified(tracker)
    /\ deref(tracker) = 4

\* C18: reset() returns true exactly when the wrapper was Modified, leaves
\* the wrapper Unmodified and the value unchanged, and changes nothing on an
\* Unmodified wrapper.
C18_ResetContract ==
    [][ lastOp'.name = "reset"
            => /\ returned' = is_modified(tracker)
               /\ is_unmodified(tracker')
               /\ deref(tracker') = deref(tracker)
               /\ is_unmodified(tracker) => tracker' = tracker ]_vars

\* C18 witness: reset() has returned true on a wrapper holding a written
\* value.
C18_Witness ==
    /\ lastOp.name = "reset"
    /\ returned = TRUE
    /\ is_unmodified(tracker)
    /\ deref(tracker) = 4

\* C19: Tracked::new(value) yields an Unmodified wrapper holding value, and
\* the wrapper stays Unmodified under every call that is not a write access.
C19_NewIsUnmodified ==
    [][ /\ lastOp'.name = "Tracked::new"
            => /\ is_unmodified(tracker') /\ ~is_modified(tracker')
               /\ deref(tracker') = arg'
        /\ (is_unmodified(tracker) /\ lastOp'.name \notin WriteAccesses)
            => is_unmodified(tracker') ]_vars

\* C19 witness: is_unmodified() has returned true on a wrapper built by
\* Tracked::new(4) and not written since.
C19_Witness ==
    /\ lastOp.name = "is_unmodified"
    /\ returned = TRUE
    /\ writes = 0
    /\ arg = 4
    /\ deref(tracker) = 4

\* C21: SceneNode::new(t) creates a node whose transform and cache both hold
\* t, both in Unmodified wrappers, with no children and no quads.
C21_NewNodeContract ==
    [][ \A t \in Transforms :
          NewNode(t)
            => LET n == pool'[Len(pool')]
               IN  /\ n.transform = Unmodified(t)
                   /\ n.cache = Unmodified(t)
                   /\ n.children = << >>
                   /\ n.quads = << >> ]_vars

\* C21 witness: SceneNode::new(2 * identity) has returned the second node the
\* caller owns.
C21_Witness ==
    /\ lastOp.name = "SceneNode::new"
    /\ Len(pool) = 2
    /\ deref(pool[2].transform) = Scale(2)
    /\ deref(pool[2].cache) = Scale(2)
    /\ is_unmodified(pool[2].transform)

\* the parent reference handed to the node at path p when a compute_cache
\* called on the root with par, leaving the tree t2, reaches that node
PassedParent(par, t2, p) ==
    IF p = << >> THEN par ELSE Node(t2, ParentOf(p)).cache

\* a compute_cache called on the root of t with par, leaving t2, runs on the
\* node at path p: on the root; below a node it runs on, on every child when
\* that node's parent reference is Modified, on the Modified children else
RECURSIVE Visited(_, _, _, _)
Visited(t, t2, par, p) ==
    \/ p = << >>
    \/ /\ Visited(t, t2, par, ParentOf(p))
       /\ \/ is_modified(PassedParent(par, t2, ParentOf(p)))
          \/ is_modified(NodeWrapper(t, p))

\* C22: when compute_cache is given a Modified parent reference, the node's
\* cache becomes parent_world * local_transform in a Modified cache wrapper,
\* and so, with the node's new cache as the parent reference, does the cache
\* of every child, whether the child's node wrapper was Modified or not, and
\* of every node below.
C22_ParentModifiedBranch ==
    [][ (lastOp'.name = "compute_cache" /\ is_modified(parentRef'))
            => \A p \in Paths(tree) :
                  Node(tree', p).cache
                     = Modified(MatMul(deref(PassedParent(parentRef', tree', p)),
                                       TransformOf(tree, p))) ]_vars

\* C22 witness: compute_cache has run with the Modified parent Shift on a
\* chain of three nodes right after unset_modifications() (every node
\* wrapper below the root was Unmodified), the root's transform being
\* Stretch: the two orders of the product differ.
C22_Witness ==
    /\ HasTree
    /\ lastOp.name = "compute_cache"
    /\ prevOp = "unset_modifications"
    /\ parentRef = Modified(Shift)
    /\ TransformOf(tree, << >>) = Stretch
    /\ CacheOf(tree, << >>) = MatMul(Shift, Stretch)
    /\ MatMul(Shift, Stretch) # MatMul(Stretch, Shift)
    /\ <<1, 1>> \in Paths(tree)
    /\ CacheOf(tree, <<1, 1>>)
          = MatMul(CacheOf(tree, <<1>>), TransformOf(tree, <<1, 1>>))

\* C23: where compute_cache runs on a node with an Unmodified parent
\* reference, the node's cache and cache wrapper stay as they were; a child
\* whose node wrapper is Unmodified stays as it was with its whole subtree;
\* a child whose node wrapper is Modified is run on with the node's cache as
\* parent reference (its cache becomes cache(node) * transform(child) when
\* that reference is Modified and stays as it was when it is Unmodified).
C23_ParentUnmodifiedBranch ==
    [][ lastOp'.name = "compute_cache"
            => \A p \in Paths(tree) :
                  (/\ Visited(tree, tree', parentRef', p)
                   /\ is_unmodified(PassedParent(parentRef', tree', p)))
                     => /\ Node(tree', p).cache = Node(tree, p).cache
                        /\ \A i \in 1..Len(Node(tree, p).children) :
                              LET q == p \o <<i>>
                                  k == Node(tree, p).cache
                              IN  IF is_unmodified(NodeWrapper(tree, q))
                                  THEN NodeWrapper(tree', q) = NodeWrapper(tree, q)
                                  ELSE /\ is_modified(NodeWrapper(tree', q))
                                       /\ Node(tree', q).cache
                                            = IF is_modified(k)
                                              THEN Modified(MatMul(deref(k),
                                                       TransformOf(tree, q)))
                                              ELSE Node(tree, q).cache ]_vars

\* C23 witness: compute_cache has run with an Unmodified parent on a root
\* with two children: the first, Unmodified, was skipped and is Unmodified
\* still; the second, Modified, holds cache(root) * transform, the root's
\* cache being Modified by an earlier call and no longer its transform.
C23_Witness ==
    /\ HasTree
    /\ lastOp.name = "compute_cache"
    /\ is_unmodified(parentRef)
    /\ Len(tree.root.inner.children) = 2
    /\ is_modified(Node(tree, << >>).cache)
    /\ CacheOf(tree, << >>) # TransformOf(tree, << >>)
    /\ is_unmodified(NodeWrapper(tree, <<1>>))
    /\ is_modified(NodeWrapper(tree, <<2>>))
    /\ Node(tree, <<2>>).cache
          = Modified(MatMul(CacheOf(tree, << >>), TransformOf(tree, <<2>>)))

\* C24: unset_modifications() walks the tree in post-order, so that every
\* node wrapper is reset after the wrappers below it and is Unmodified when
\* the walk returns, and the walk resets the transform wrapper and the cache
\* wrapper of every node as well; it changes no value.
C24_PostOrderResetsAll ==
    [][ lastOp'.name = "unset_modifications"
            => /\ Skeleton(tree') = Skeleton(tree)
               /\ Caches(tree') = Caches(tree)
               /\ \A p \in Paths(tree') :
                     /\ NodeWrapper(tree', p) = Unmodified(Node(tree', p))
                     /\ Node(tree', p).transform = Unmodified(TransformOf(tree, p))
                     /\ Node(tree', p).cache = Unmodified(CacheOf(tree, p)) ]_vars

\* C25: under the per-frame protocol, at the read step every node that
\* existed at the last unset_modifications() and whose cache wrapper is
\* Unmodified holds the cache value it held then; a node whose cache value
\* differs from that has a Modified cache wrapper.
C25_UploadFilterSound ==
    (HasTree /\ lastOp.name = "read")
        => \A p \in Paths(tree) \cap DOMAIN snapshot :
              is_unmodified(Node(tree, p).cache)
                 => CacheOf(tree, p) = snapshot[p]

\* C25 witness: the read step of a later frame, on a tree of three nodes
\* that all existed at the last unset_modifications(), one of them with an
\* Unmodified cache wrapper.
C25_Witness ==
    /\ HasTree
    /\ lastOp.name = "read"
    /\ Cardinality(Paths(tree)) = 3
    /\ DOMAIN snapshot = Paths(tree)
    /\ \E p \in Paths(tree) :
          /\ is_unmodified(Node(tree, p).cache)
          /\ CacheOf(tree, p) = snapshot[p]

\* C26: between two unset_modifications() calls no call on the tree
\* (transform write, add_child, get_children_mut, recompute_caches, read)
\* takes the node wrapper, the transform wrapper or the cache wrapper of any
\* node from Modified back to Unmodified.
C26_DirtyAccumulates ==
    [][ (HasTree /\ lastOp'.name # "unset_modifications")
            => \A p \in Paths(tree) :
                  /\ is_modified(NodeWrapper(tree, p))
                        => is_modified(NodeWrapper(tree', p))
                  /\ is_modified(Node(tree, p).transform)
                        => is_modified(Node(tree', p).transform)
                  /\ is_modified(Node(tree, p).cache)
                        => is_modified(Node(tree', p).cache) ]_vars

\* C26 witness: recompute_caches() has returned, not directly after
\* unset_modifications(), on a tree of three nodes where a grandchild has its
\* node wrapper, its transform wrapper and its cache wrapper Modified.
C26_Witness ==
    /\ HasTree
    /\ lastOp.name = "recompute_caches"
    /\ prevOp = "other"
    /\ <<1, 1>> \in Paths(tree)
    /\ is_modified(NodeWrapper(tree, <<1, 1>>))
    /\ is_modified(Node(tree, <<1, 1>>).transform)
    /\ is_modified(Node(tree, <<1, 1>>).cache)

\* C27: a call of root_mut() leaves the root node wrapper Modified, so a
\* recompute_caches() that directly follows a root_mut() call finds the root
\* wrapper Modified and does not take the fast path.
C27_RootMutMarks ==
    [][ /\ lastOp'.name = "root_mut" => is_modified(tree'.root)
        /\ (lastOp.name = "root_mut" /\ lastOp'.name = "recompute_caches")
              => is_modified(tree.root) ]_vars

\* C28: a recompute_caches() or unset_modifications() that was called
\* returns; while it runs it is called on no node more than once and its
\* calls are never nested deeper than the tree has nodes; and it returns
\* the tree the pass is specified to leave (no error on the way).
C28_PassesTerminate ==
    /\ [](/\ \A p \in DOMAIN visits : visits[p] <= 1
          /\ Len(stack) <= Cardinality(DOMAIN visits))
    /\ Walking ~> ~Walking
    /\ [][ (Walking /\ ~Walking')
             => tree' = IF lastOp'.name = "recompute_caches"
                        THEN recompute_caches(entry)
                        ELSE unset_modifications(entry) ]_vars

\* C28 witness: recompute_caches() has returned from a chain of three nodes
\* with a Modified root, after one call on each node.
C28_Witness ==
    /\ HasTree
    /\ ~Walking
    /\ lastOp.name = "recompute_caches"
    /\ entry # NoTree
    /\ is_modified(entry.root)
    /\ DOMAIN visits = {<< >>, <<1>>, <<1, 1>>}
    /\ \A p \in DOMAIN visits : visits[p] = 1

\* C29: a recompute_caches() that finds the root wrapper Modified rewrites
\* the cache of every node of the tree (the root's to its transform, every
\* other to cache(parent) * transform) and leaves every node wrapper and
\* every cache wrapper Modified, whichever nodes were mutated; the transform
\* values and the transform wrapper states stay as they were.
C29_FullRecompute ==
    [][ (HasTree /\ is_modified(tree.root)
           /\ lastOp'.name = "recompute_caches")
            => \A p \in Paths(tree') :
                  /\ is_modified(NodeWrapper(tree', p))
                  /\ Node(tree', p).cache
                        = Modified(IF p = << >> THEN TransformOf(tree, p)
                                   ELSE MatMul(CacheOf(tree', ParentOf(p)),
                                               TransformOf(tree, p)))
                  /\ Node(tree', p).transform = Node(tree, p).transform ]_vars

\* C29 witness: the pass has run on a root with two children of which only
\* the first had its transform written: the second, with an Unmodified
\* transform wrapper, has a Modified node wrapper and a Modified cache
\* wrapper all the same.
C29_Witness ==
    /\ HasTree
    /\ lastOp.name = "recompute_caches"
    /\ prevOp = "other"
    /\ Len(tree.root.inner.children) = 2
    /\ is_modified(Node(tree, <<1>>).transform)
    /\ is_unmodified(Node(tree, <<2>>).transform)
    /\ is_modified(NodeWrapper(tree, <<2>>))
    /\ is_modified(Node(tree, <<2>>).cache)
    /\ CacheOf(tree, <<2>>) # TransformOf(tree, <<2>>)

\* the wrapper w holds the SceneNode n, inserted: the same nodes with the
\* same transform and cache values, and below the inserted node every node
\* wrapper and every index wrapper Modified
InsertedAs(n, w) ==
    /\ PathsOf(w.inner) = PathsOf(n)
    /\ \A r \in PathsOf(n) :
          /\ deref(NodeAt(w.inner, r).transform) = deref(NodeAt(n, r).transform)
          /\ deref(NodeAt(w.inner, r).cache) = deref(NodeAt(n, r).cache)
          /\ r # << >> => /\ is_modified(WrapperAt(w.inner, r))
                          /\ is_modified(NodeAt(w.inner, r).df_index)

\* the subtree in wrapper new has the transform and cache values of the one
\* in wrapper old
KeepsValues(old, new) ==
    /\ PathsOf(new.inner) = PathsOf(old.inner)
    /\ \A r \in PathsOf(old.inner) :
          /\ deref(NodeAt(new.inner, r).transform)
                = deref(NodeAt(old.inner, r).transform)
          /\ deref(NodeAt(new.inner, r).cache)
                = deref(NodeAt(old.inner, r).cache)

\* C30: add_child(node), on a node of the tree and on an owned node alike,
\* leaves the node wrapper and the index wrapper of every proper descendant
\* of the inserted node Modified, and leaves the transform and cache values
\* of the inserted subtree and of the subtrees of the children already
\* present as they were.
C30_AddChildSubtree ==
    [][ /\ lastOp'.name = "add_child"
            => LET old  == Node(tree, lastOp'.path).children
                   kids == Node(tree', lastOp'.path).children
               IN  /\ Len(kids) = Len(old) + 1
                   /\ \E j \in 1..Len(pool) :
                         /\ pool' = RemoveAt(pool, j)
                         /\ InsertedAs(pool[j], kids[Len(kids)])
                   /\ \A i \in 1..Len(old) : KeepsValues(old[i], kids[i])
        /\ lastOp'.name = "owned.add_child"
            => \E i \in 1..Len(pool), j \in 1..Len(pool) :
                  /\ i # j
                  /\ Len(pool') = Len(pool) - 1
                  /\ LET old  == pool[i].children
                         kids == pool'[IF j < i THEN i - 1 ELSE i].children
                     IN  /\ Len(kids) = Len(old) + 1
                         /\ InsertedAs(pool[j], kids[Len(kids)])
                         /\ \A k \in 1..Len(old) :
                               KeepsValues(old[k], kids[k]) ]_vars

\* C30 witness: a node with a child was added as second child to a node of
\* the tree; the inserted node's child has a Modified node wrapper and a
\* Modified index wrapper, and the first child still holds the cache a
\* recompute_caches() wrote, which is not its transform.
C30_Witness ==
    /\ HasTree
    /\ lastOp.name = "add_child"
    /\ LET kids == Node(tree, lastOp.path).children
       IN  /\ Len(kids) = 2
           /\ Len(kids[2].inner.children) = 1
           /\ is_modified(kids[2].inner.children[1])
           /\ is_modified(kids[2].inner.children[1].inner.df_index)
           /\ deref(kids[1].inner.cache) # deref(kids[1].inner.transform)

====
